---------------------------- MODULE Spec2Model ----------------------------
(***************************************************************************)
(* Model of the ML service of uw-decision-support: the model lifecycle     *)
(* (ModelManager, Trainer, the training-job registry of the API routes,    *)
(* the model blob store) and the feature pipeline (InferenceService,       *)
(* DataLoader, FeatureEngineer, the two models' feature extraction and     *)
(* rule-based fallbacks).                                                  *)
(*                                                                         *)
(* Scheduling: one asyncio event loop.  A coroutine runs without           *)
(* interruption until it awaits the backend (httpx); every action below is *)
(* one such uninterrupted segment.  Model fitting, saving and prediction   *)
(* are synchronous calls and never yield the loop.                         *)
(*                                                                         *)
(* Encodings: a version tag is a number, 0 for the configured "v1" and t   *)
(* for the tag generated at clock second t.  Python's None is the number   *)
(* None (-1) where the value is numeric, and the string "None" where it is *)
(* a string.  Probabilities, yields and scores are in hundredths.          *)
(***************************************************************************)
EXTENDS Integers, Sequences, FiniteSets, TLC

\* ------------------------------------------------------------------ bounds
MaxJobs == 2
MaxServeJobs == 1
MaxClock == 2
MaxFaults == 1

\* ------------------------------------------------------- program constants
None == -1
Absent == -2
DefaultVersion == 0
CurrentModelVersion == 0
MinTrainingSamples == 100
PreFit == 0
ExternalFit == 9

SUPPORTED_TESTS ==
    <<"HBA1C", "LIPID", "ECG", "LFT", "RFT", "CBC", "URINE", "ECHO", "TMT">>

Tests == {SUPPORTED_TESTS[i] : i \in 1..Len(SUPPORTED_TESTS)}

\* The test codes callers pass: the supported ones and one that is not.
Codes == Tests \cup {"XYZ"}

ComplexityFeatures ==
    <<"age", "bmi", "sum_assured", "smoking_status", "condition_count",
      "medication_count", "has_cardiac", "has_diabetes", "has_hypertension",
      "has_renal", "family_history_cardiac", "family_history_diabetes">>

TestYieldFeatures ==
    <<"age", "bmi", "smoking_status", "condition_count",
      "has_condition_related", "sum_assured_tier">>

\* A feature schema stored with an artifact written by an earlier release.
LegacyFeatures == <<"age", "bmi", "sum_assured", "smoking_status">>

Versions == 0..MaxClock
JobIds == 1..MaxJobs

\* ---------------------------------------------------------------- blob store
\* An artifact path is <<version, kind>>: models/<version>/complexity_model.joblib
\* or models/<version>/test_yield_<code>.joblib.
ComplexityPath(version) == <<version, "complexity">>

TestPath(test_code, version) == <<version, test_code>>

Artifact(model, feature_names, version, metrics) ==
    [model |-> model, feature_names |-> feature_names,
     version |-> version, metrics |-> metrics]

\* joblib.dump: the file at path now holds art (created or overwritten).
Dump(st, path, art) ==
    [p \in (DOMAIN st) \cup {path} |-> IF p = path THEN art ELSE st[p]]

\* ------------------------------------------------------------ ComplexityModel
\* ComplexityModel(): unfitted, the configured schema, version "v1".
NewComplexityModel ==
    [model |-> None, feature_names |-> ComplexityFeatures,
     version |-> DefaultVersion, is_fitted |-> FALSE, training_metrics |-> None]

\* A variant of ComplexityModel.load that falls back to the configured
\* version's artifact when the requested version has none.
ComplexityLoadOrConfigured(m, st, version) ==
    LET path == IF ComplexityPath(version) \in DOMAIN st THEN ComplexityPath(version)
                ELSE ComplexityPath(CurrentModelVersion) IN
    IF path \in DOMAIN st
    THEN [model |-> st[path].model,
          feature_names |-> st[path].feature_names,
          version |-> st[path].version,
          is_fitted |-> TRUE,
          training_metrics |-> st[path].metrics]
    ELSE m

\* ComplexityModel.load(version) on model m.
ComplexityLoad(m, st, version) ==
    LET path == ComplexityPath(version) IN
    IF path \in DOMAIN st
    THEN [model |-> st[path].model,
          feature_names |-> st[path].feature_names,
          version |-> st[path].version,
          is_fitted |-> TRUE,
          training_metrics |-> st[path].metrics]
    ELSE m

\* ComplexityModel.fit on model m by the fit numbered fit_id (when it returns).
ComplexityFit(m, fit_id) ==
    [m EXCEPT !.model = fit_id, !.is_fitted = TRUE, !.training_metrics = fit_id]

\* ComplexityModel.save(version): the store after the dump.
ComplexitySave(m, st, version) ==
    Dump(st, ComplexityPath(version),
         Artifact(m.model, m.feature_names, version, m.training_metrics))

\* ------------------------------------------------------------- TestYieldModel
NewTestYieldModel ==
    [models |-> [t \in Codes |-> Absent],
     feature_names |-> TestYieldFeatures,
     version |-> DefaultVersion,
     is_fitted |-> [t \in Codes |-> FALSE],
     training_metrics |-> [t \in Codes |-> Absent]]

\* One iteration of the loop of TestYieldModel.load for test_code.
TestYieldLoadOne(m, st, test_code, version) ==
    LET path == TestPath(test_code, version) IN
    IF path \in DOMAIN st
    THEN [m EXCEPT !.models[test_code] = st[path].model,
                   !.is_fitted[test_code] = TRUE,
                   !.training_metrics[test_code] = st[path].metrics]
    ELSE m

RECURSIVE TestYieldLoadFrom(_, _, _, _)
TestYieldLoadFrom(m, st, version, i) ==
    IF i > Len(SUPPORTED_TESTS) THEN m
    ELSE TestYieldLoadFrom(TestYieldLoadOne(m, st, SUPPORTED_TESTS[i], version),
                           st, version, i + 1)

\* TestYieldModel.load(version).
TestYieldLoad(m, st, version) == TestYieldLoadFrom(m, st, version, 1)

\* A variant of TestYieldModel.fit that keeps one fitted flag for the whole
\* model, as ComplexityModel does.
TestYieldFitSharedFlag(m, test_code, fit_id) ==
    [m EXCEPT !.models[test_code] = fit_id,
              !.is_fitted = [t \in DOMAIN m.is_fitted |-> TRUE],
              !.training_metrics[test_code] = fit_id]

\* TestYieldModel.fit(test_code, X, y) when the regressor's fit returns.
TestYieldFit(m, test_code, fit_id) ==
    [m EXCEPT !.models[test_code] = fit_id,
              !.is_fitted[test_code] = TRUE,
              !.training_metrics[test_code] = fit_id]

\* TestYieldModel.save(test_code, version): the store after the dump.
TestYieldSave(m, st, test_code, version) ==
    Dump(st, TestPath(test_code, version),
         Artifact(m.models[test_code], m.feature_names, version,
                  m.training_metrics[test_code]))

\* A call of TestYieldModel.fit(test_code, X, y) from its first statement:
\* whether it raised, and the model it leaves.
TestYieldFitCall(m, test_code, fit_id) ==
    IF test_code \notin Tests THEN [raised |-> TRUE, model |-> m]
    ELSE [raised |-> FALSE, model |-> TestYieldFit(m, test_code, fit_id)]

\* A call of TestYieldModel.save(test_code, version) from its first
\* statement: whether it raised, and the store it leaves.  None: no version
\* given.
TestYieldSaveCall(m, st, test_code, version) ==
    IF m.models[test_code] = Absent THEN [raised |-> TRUE, store |-> st]
    ELSE [raised |-> FALSE,
          store |-> TestYieldSave(m, st, test_code,
                                  IF version = None THEN m.version ELSE version)]

\* --------------------------------------------------------------- ModelManager
\* ModelManager._load_models with current_version = version.
LoadModels(st, version) ==
    [complexity_model |-> ComplexityLoad(NewComplexityModel, st, version),
     test_yield_model |-> TestYieldLoad(NewTestYieldModel, st, version),
     current_version |-> version]

\* ModelManager.get_loaded_models; the key "test_yield_<code>" is kept as the
\* test code.
GetLoadedModels(mgr) ==
    [k \in {"complexity"} \cup Tests |->
        IF k = "complexity" THEN mgr.complexity_model.is_fitted
        ELSE mgr.test_yield_model.is_fitted[k]]

\* A variant of update_complexity_model that copies the new model into the
\* active object field by field and leaves out the feature schema.
UpdateComplexityModelByField(manager, model) ==
    [manager EXCEPT !.complexity_model.model = model.model,
                    !.complexity_model.version = model.version,
                    !.complexity_model.is_fitted = model.is_fitted,
                    !.complexity_model.training_metrics = model.training_metrics]

\* ModelManager.update_complexity_model(model).
UpdateComplexityModel(manager, model) ==
    [manager EXCEPT !.complexity_model = model]

\* A variant of update_test_yield_model that swaps the whole TestYieldModel
\* object in, as update_complexity_model does for its family.
UpdateTestYieldModelWhole(manager, test_code, model) ==
    [manager EXCEPT
        !.test_yield_model = [model EXCEPT !.is_fitted[test_code] = TRUE]]

\* ModelManager.update_test_yield_model(test_code, model).
UpdateTestYieldModel(manager, test_code, model) ==
    [manager EXCEPT
        !.test_yield_model.models[test_code] =
            IF model.models[test_code] = Absent THEN None
            ELSE model.models[test_code],
        !.test_yield_model.is_fitted[test_code] = TRUE]

\* ------------------------------------------------------ serving-time features
\* The keywords that occur in the lower-cased text of a disclosure name.  The
\* names are chosen so that no keyword arises across the " " that joins two
\* names.
KeywordsIn(name) ==
    CASE name = "Coronary artery disease" -> {"coronary"}
      [] name = "Heart disease"           -> {"heart"}
      [] name = "Arrhythmia"              -> {"arrhythmia"}
      [] name = "Type 2 diabetes"         -> {"diabetes"}
      [] name = "Hypertension"            -> {"hypertension"}
      [] name = "Chronic kidney disease"  -> {"kidney"}
      [] name = "Nephropathy"             -> {"nephro"}
      [] name = "Liver cirrhosis"         -> {"liver", "cirrhosis"}
      [] OTHER                            -> {}

\* any(kw in text for kw in keywords), text the joined names.
AnyKeyword(names, keywords) ==
    \E i \in 1..Len(names) : KeywordsIn(names[i]) \cap keywords # {}

\* dict.get(key, default): the default applies only when the key is missing.
Get(d, key, default) == IF key \in DOMAIN d THEN d[key] ELSE default

OfType(disclosures, dtype) ==
    SelectSeq(disclosures, LAMBDA d : d.disclosure_type = dtype)

ConditionNames(disclosures) ==
    [i \in 1..Len(OfType(disclosures, "condition")) |->
        OfType(disclosures, "condition")[i].condition_name]

FamilyConditions(disclosures) ==
    [i \in 1..Len(OfType(disclosures, "family_history")) |->
        OfType(disclosures, "family_history")[i].family_condition]

\* A name that is None: .lower() on it raises AttributeError.
HasNoneName(names) == \E i \in 1..Len(names) : names[i] = "None"

\* weight_kg / (height_m * height_m), in hundredths (truncated).
ServingBmi(height_cm, weight_kg) == (weight_kg * 1000000) \div (height_cm * height_cm)

\* InferenceService._prepare_complexity_features.  raised marks an exception.
PrepareComplexityFeatures(applicant, sum_assured, medical_disclosures) ==
    LET given == applicant.bmi
        bmi == IF (given = None \/ given = 0)
                  /\ applicant.height_cm # None /\ applicant.height_cm # 0
                  /\ applicant.weight_kg # None /\ applicant.weight_kg # 0
               THEN ServingBmi(applicant.height_cm, applicant.weight_kg)
               ELSE given
        conditions == ConditionNames(medical_disclosures)
        family == FamilyConditions(medical_disclosures)
    IN  [raised |-> HasNoneName(conditions) \/ HasNoneName(family),
         age |-> applicant.age,
         bmi |-> bmi,
         smoking_status |-> applicant.smoking_status,
         sum_assured |-> sum_assured,
         condition_count |-> Len(conditions),
         medication_count |-> Len(OfType(medical_disclosures, "medication")),
         has_cardiac |-> AnyKeyword(conditions, {"cardiac", "heart", "coronary", " mi ", "angina"}),
         has_diabetes |-> AnyKeyword(conditions, {"diabetes"}),
         has_hypertension |-> AnyKeyword(conditions, {"hypertension", "blood pressure", "htn"}),
         has_renal |-> AnyKeyword(conditions, {"kidney", "renal", "ckd"}),
         family_history_cardiac |-> AnyKeyword(family, {"cardiac", "heart"}),
         family_history_diabetes |-> AnyKeyword(family, {"diabetes"})]

\* InferenceService._prepare_test_features.
PrepareTestFeatures(test_code, applicant, sum_assured, medical_disclosures) ==
    [k \in DOMAIN PrepareComplexityFeatures(applicant, sum_assured, medical_disclosures)
            \cup {"test_code"} |->
        IF k = "test_code" THEN test_code
        ELSE PrepareComplexityFeatures(applicant, sum_assured, medical_disclosures)[k]]

\* 2 / 1 / 0 for current / former / anything else.
SmokingCode(status) ==
    IF status = "current" THEN 2 ELSE IF status = "former" THEN 1 ELSE 0

\* sum_assured / 1000000 in hundredths; sum_assured is in thousands.
Millions(sum_assured) == sum_assured \div 10

Bit(flag) == IF flag THEN 1 ELSE 0

\* One component of ComplexityModel._extract_features.  A None stays in the
\* vector (numpy stores it as NaN).
ComplexityFeatureValue(fname, features) ==
    CASE fname = "age" -> Get(features, "age", 35)
      [] fname = "bmi" -> Get(features, "bmi", 2400)
      [] fname = "sum_assured" -> Millions(Get(features, "sum_assured", 5000))
      [] fname = "smoking_status" -> SmokingCode(Get(features, "smoking_status", "never"))
      [] fname = "condition_count" -> Get(features, "condition_count", 0)
      [] fname = "medication_count" -> Get(features, "medication_count", 0)
      [] fname \in {"has_cardiac", "has_diabetes", "has_hypertension", "has_renal",
                    "family_history_cardiac", "family_history_diabetes"} ->
            Bit(Get(features, fname, FALSE))
      [] OTHER -> 0

\* ComplexityModel._extract_features.
ComplexityExtractFeatures(feature_names, features) ==
    [i \in 1..Len(feature_names) |-> ComplexityFeatureValue(feature_names[i], features)]

\* TestYieldModel.TEST_CONDITIONS.
TEST_CONDITIONS(test_code) ==
    CASE test_code = "HBA1C" -> {"diabetes", "metabolic"}
      [] test_code = "LIPID" -> {"cardiac", "metabolic", "obesity"}
      [] test_code = "ECG"   -> {"cardiac", "hypertension"}
      [] test_code = "LFT"   -> {"hepatic", "alcohol", "medication"}
      [] test_code = "RFT"   -> {"renal", "diabetes", "hypertension"}
      [] test_code = "CBC"   -> {}
      [] test_code = "URINE" -> {"renal", "diabetes"}
      [] test_code = "ECHO"  -> {"cardiac"}
      [] test_code = "TMT"   -> {"cardiac"}
      [] OTHER -> {}

\* Whether TestYieldModel._has_related_condition compares a bmi that is None
\* with 30 (TypeError): the checks are made in order and stop at the first hit.
RelatedConditionRaises(test_code, features) ==
    LET related == TEST_CONDITIONS(test_code)
        before_obesity ==
            \/ "cardiac" \in related /\ Get(features, "has_cardiac", FALSE)
            \/ "diabetes" \in related /\ Get(features, "has_diabetes", FALSE)
            \/ "renal" \in related /\ Get(features, "has_renal", FALSE)
            \/ "hypertension" \in related /\ Get(features, "has_hypertension", FALSE)
    IN  /\ ~before_obesity
        /\ Get(features, "bmi", 2400) = None
        /\ \/ "obesity" \in related
           \/ "metabolic" \in related /\ ~Get(features, "has_diabetes", FALSE)

\* TestYieldModel._has_related_condition (when it does not raise).
HasRelatedCondition(test_code, features) ==
    LET related == TEST_CONDITIONS(test_code) IN
    \/ "cardiac" \in related /\ Get(features, "has_cardiac", FALSE)
    \/ "diabetes" \in related /\ Get(features, "has_diabetes", FALSE)
    \/ "renal" \in related /\ Get(features, "has_renal", FALSE)
    \/ "hypertension" \in related /\ Get(features, "has_hypertension", FALSE)
    \/ "obesity" \in related /\ Get(features, "bmi", 2400) >= 3000
    \/ "metabolic" \in related
        /\ (Get(features, "has_diabetes", FALSE) \/ Get(features, "bmi", 2400) >= 3000)

\* The sum_assured_tier branch of TestYieldModel._extract_features;
\* sum_assured is in thousands.
SumAssuredTier(sum_assured) ==
    IF sum_assured >= 10000 THEN 3
    ELSE IF sum_assured >= 5000 THEN 2
    ELSE IF sum_assured >= 2500 THEN 1
    ELSE 0

\* One component of TestYieldModel._extract_features.
TestFeatureValue(fname, test_code, features) ==
    CASE fname = "age" -> Get(features, "age", 35)
      [] fname = "bmi" -> Get(features, "bmi", 2400)
      [] fname = "smoking_status" -> SmokingCode(Get(features, "smoking_status", "never"))
      [] fname = "condition_count" -> Get(features, "condition_count", 0)
      [] fname = "has_condition_related" -> Bit(HasRelatedCondition(test_code, features))
      [] fname = "sum_assured_tier" -> SumAssuredTier(Get(features, "sum_assured", 0))
      [] OTHER -> 0

\* TestYieldModel._extract_features.
TestExtractFeatures(feature_names, test_code, features) ==
    [i \in 1..Len(feature_names) |-> TestFeatureValue(feature_names[i], test_code, features)]

\* ----------------------------------------------------- training-time features
\* FeatureEngineer.calculate_bmi: round(weight_kg / height_m^2, 1), in
\* hundredths; None when a measure is missing or 0.
CalculateBmi(height_cm, weight_kg) ==
    IF height_cm \in {None, 0} \/ weight_kg \in {None, 0} THEN None
    ELSE 10 * ((2 * weight_kg * 100000 + height_cm * height_cm)
                    \div (2 * height_cm * height_cm))

\* FeatureEngineer.encode_smoking_status.
EncodeSmokingStatus(status) ==
    IF status = "current" THEN 2 ELSE IF status = "former" THEN 1 ELSE 0

\* FeatureEngineer.get_sum_assured_tier; sum_assured is in thousands.
GetSumAssuredTier(sum_assured) ==
    IF sum_assured >= 10000 THEN 3
    ELSE IF sum_assured >= 5000 THEN 2
    ELSE IF sum_assured >= 2500 THEN 1
    ELSE 0

\* FeatureEngineer.extract_condition_flags: the flags a feature schema or a
\* test's condition map names.
ExtractConditionFlags(disclosures) ==
    LET conditions == ConditionNames(disclosures) IN
    [has_cardiac |-> AnyKeyword(conditions,
        {"cardiac", "heart", "coronary", " mi ", "angina", "arrhythmia"}),
     has_diabetes |-> AnyKeyword(conditions, {"diabetes"}),
     has_hypertension |-> AnyKeyword(conditions, {"hypertension", "blood pressure", "htn"}),
     has_renal |-> AnyKeyword(conditions, {"kidney", "renal", "ckd", "nephro"}),
     has_hepatic |-> AnyKeyword(conditions, {"liver", "hepatic", "cirrhosis"})]

\* FeatureEngineer.extract_family_history_flags.
ExtractFamilyHistoryFlags(disclosures) ==
    LET family == FamilyConditions(disclosures) IN
    [family_history_cardiac |-> AnyKeyword(family, {"cardiac", "heart", "coronary"}),
     family_history_diabetes |-> AnyKeyword(family, {"diabetes"})]

\* FeatureEngineer.count_disclosures.
CountDisclosures(disclosures) ==
    [condition_count |-> Len(OfType(disclosures, "condition")),
     medication_count |-> Len(OfType(disclosures, "medication")),
     family_history_count |-> Len(OfType(disclosures, "family_history")),
     surgery_count |-> Len(OfType(disclosures, "surgery"))]

\* The union of two dicts with disjoint keys ({**a, **b}).
Merge(a, b) == [k \in DOMAIN a \cup DOMAIN b |-> IF k \in DOMAIN a THEN a[k] ELSE b[k]]

\* DataLoader._extract_case_features.
ExtractCaseFeatures(applicant, sum_assured, disclosures) ==
    LET given == Get(applicant, "bmi", None)
        bmi == IF given \in {None, 0}
               THEN CalculateBmi(Get(applicant, "height_cm", None),
                                 Get(applicant, "weight_kg", None))
               ELSE given
    IN  Merge([age |-> Get(applicant, "age", 35),
               bmi |-> IF bmi \in {None, 0} THEN 2400 ELSE bmi,
               sum_assured |-> Millions(sum_assured),
               smoking_status |-> EncodeSmokingStatus(Get(applicant, "smoking_status", "None"))],
              Merge(ExtractConditionFlags(disclosures),
                    Merge(ExtractFamilyHistoryFlags(disclosures),
                          CountDisclosures(disclosures))))

\* test_condition_map of DataLoader._extract_test_features.
TestConditionMap(test_code) ==
    CASE test_code = "HBA1C" -> {"has_diabetes"}
      [] test_code = "LIPID" -> {"has_cardiac", "has_diabetes"}
      [] test_code = "ECG"   -> {"has_cardiac", "has_hypertension"}
      [] test_code = "LFT"   -> {"has_hepatic"}
      [] test_code = "RFT"   -> {"has_renal", "has_diabetes", "has_hypertension"}
      [] OTHER -> {}

\* DataLoader._extract_test_features.
ExtractTestFeatures(test_code, applicant, sum_assured, disclosures) ==
    Merge(ExtractCaseFeatures(applicant, sum_assured, disclosures),
          [has_condition_related |->
                Bit(\E c \in TestConditionMap(test_code) :
                        Get(ExtractConditionFlags(disclosures), c, FALSE)),
           sum_assured_tier |-> GetSumAssuredTier(sum_assured)])

\* The keys of a training feature dict that hold a bool.
FlagNames ==
    {"has_cardiac", "has_diabetes", "has_hypertension", "has_renal", "has_hepatic",
     "family_history_cardiac", "family_history_diabetes"}

\* A row of X: [features.get(f, 0) for f in feature_names] as float32.
TrainingRow(features, feature_names) ==
    [i \in 1..Len(feature_names) |->
        IF feature_names[i] \in FlagNames
        THEN Bit(Get(features, feature_names[i], FALSE))
        ELSE Get(features, feature_names[i], 0)]

\* A date is <<year, month, day>>.  datetime.now() at clock reading clock:
\* midnight falls just before the latest reading.
Today(clock) == IF clock < MaxClock THEN <<2026, 11, 3>> ELSE <<2026, 11, 4>>

\* FeatureEngineer.calculate_age(date_of_birth) when datetime.now() is on the
\* date today.  <<>> is no date of birth; a string fromisoformat rejects is a
\* tuple that is not a date.
CalculateAge(date_of_birth, today) ==
    IF Len(date_of_birth) # 3 THEN None
    ELSE LET age == today[1] - date_of_birth[1] IN
         IF \/ today[2] < date_of_birth[2]
            \/ today[2] = date_of_birth[2] /\ today[3] < date_of_birth[3]
         THEN age - 1 ELSE age

\* FeatureEngineer.prepare_features(applicant, sum_assured, disclosures,
\* feature_names) when datetime.now() is on the date today.
PrepareFeatures(applicant, sum_assured, disclosures, feature_names, today) ==
    LET given_bmi == Get(applicant, "bmi", None)
        bmi == IF given_bmi \in {None, 0}
               THEN CalculateBmi(Get(applicant, "height_cm", None),
                                 Get(applicant, "weight_kg", None))
               ELSE given_bmi
        given_age == Get(applicant, "age", None)
        age == IF given_age \in {None, 0}
               THEN CalculateAge(Get(applicant, "date_of_birth", <<>>), today)
               ELSE given_age
        all_features ==
            Merge([age |-> IF age \in {None, 0} THEN 35 ELSE age,
                   bmi |-> IF bmi \in {None, 0} THEN 2400 ELSE bmi,
                   smoking_status |->
                        EncodeSmokingStatus(Get(applicant, "smoking_status", "None")),
                   sum_assured |-> Millions(sum_assured),
                   sum_assured_tier |-> GetSumAssuredTier(sum_assured)],
                  Merge(ExtractConditionFlags(disclosures),
                        Merge(ExtractFamilyHistoryFlags(disclosures),
                              CountDisclosures(disclosures))))
    IN  TrainingRow(all_features, feature_names)

\* ---------------------------------------------------------------- predictions
\* What a prediction call gives back.  raised: the call raised instead.  The
\* contribution list is kept as its length; schema and regressor are the
\* feature schema and the predictor the call used (None: the fallback rules).
Answer(target, tier, yield, confidence, recommendation, n_contributions) ==
    [target |-> target, raised |-> FALSE, tier |-> tier, predicted_yield |-> yield,
     confidence |-> confidence, recommendation |-> recommendation,
     n_contributions |-> n_contributions,
     model_version |-> None, schema |-> <<>>, regressor |-> None]

Raised(target) ==
    [target |-> target, raised |-> TRUE, tier |-> "None", predicted_yield |-> None,
     confidence |-> None, recommendation |-> "None", n_contributions |-> None,
     model_version |-> None, schema |-> <<>>, regressor |-> None]

\* No prediction call has returned yet.
NoResponse == [Raised("None") EXCEPT !.raised = FALSE]

\* A variant of the score in which the age bands are tested in ascending
\* order, so that an age of 65 or more adds 0.2.
RuleScoreAscendingBands(features) ==
    LET age == Get(features, "age", 35)
        bmi == Get(features, "bmi", 2400)
    IN  (IF age >= 55 THEN 20 ELSE IF age >= 65 THEN 40 ELSE 0)
      + (IF bmi >= 3500 THEN 35 ELSE IF bmi >= 3000 THEN 20 ELSE 0)
      + (IF Get(features, "smoking_status", "None") = "current" THEN 30 ELSE 0)
      + (IF Get(features, "has_cardiac", FALSE) THEN 50 ELSE 0)
      + (IF Get(features, "has_diabetes", FALSE) THEN 25 ELSE 0)
      + (IF Get(features, "has_renal", FALSE) THEN 40 ELSE 0)
      + (IF Get(features, "sum_assured", 0) >= 10000 THEN 10 ELSE 0)

\* The additive score of ComplexityModel._rule_based_prediction, in hundredths.
RuleScore(features) ==
    LET age == Get(features, "age", 35)
        bmi == Get(features, "bmi", 2400)
    IN  (IF age >= 65 THEN 40 ELSE IF age >= 55 THEN 20 ELSE 0)
      + (IF bmi >= 3500 THEN 35 ELSE IF bmi >= 3000 THEN 20 ELSE 0)
      + (IF Get(features, "smoking_status", "None") = "current" THEN 30 ELSE 0)
      + (IF Get(features, "has_cardiac", FALSE) THEN 50 ELSE 0)
      + (IF Get(features, "has_diabetes", FALSE) THEN 25 ELSE 0)
      + (IF Get(features, "has_renal", FALSE) THEN 40 ELSE 0)
      + (IF Get(features, "sum_assured", 0) >= 10000 THEN 10 ELSE 0)

\* A variant of the probability triples in which the MODERATE triple was
\* written as 0.2 / 0.5 / 0.2.
RuleProbabilitiesUnnormalised(score) ==
    IF score >= 60 THEN <<10, 20, 70>>
    ELSE IF score >= 30 THEN <<20, 50, 20>>
    ELSE <<70, 20, 10>>

\* probs of ComplexityModel._rule_based_prediction for a score, in hundredths
\* and in the order ROUTINE, MODERATE, COMPLEX.
RuleProbabilities(score) ==
    IF score >= 60 THEN <<10, 20, 70>>
    ELSE IF score >= 30 THEN <<20, 60, 20>>
    ELSE <<70, 20, 10>>

\* ComplexityModel._rule_based_prediction: comparing a None age or bmi with a
\* number raises TypeError; confidence = probs[tier].
ComplexityRuleBasedPrediction(features) ==
    IF Get(features, "age", 35) = None \/ Get(features, "bmi", 2400) = None
    THEN Raised("complexity")
    ELSE IF RuleScore(features) >= 60
    THEN Answer("complexity", "COMPLEX", None, RuleProbabilities(RuleScore(features))[3], "None", 1)
    ELSE IF RuleScore(features) >= 30
    THEN Answer("complexity", "MODERATE", None, RuleProbabilities(RuleScore(features))[2], "None", 1)
    ELSE Answer("complexity", "ROUTINE", None, RuleProbabilities(RuleScore(features))[1], "None", 1)

CLASSES == <<"ROUTINE", "MODERATE", "COMPLEX">>

\* np.argmax: the first index of the largest entry.
ArgMax(p) == CHOOSE i \in 1..Len(p) :
                /\ \A k \in 1..Len(p) : p[k] <= p[i]
                /\ \A k \in 1..(i - 1) : p[k] < p[i]

\* len(contributions[:8]) of ComplexityModel._calculate_contributions.
ComplexityContributionCount(feature_names) ==
    IF Len(feature_names) < 8 THEN Len(feature_names) ELSE 8

\* ComplexityModel.predict; probabilities is what the classifier's
\* predict_proba returns on the fitted path.
ComplexityPredict(model, features, probabilities) ==
    IF ~model.is_fitted THEN ComplexityRuleBasedPrediction(features)
    ELSE IF model.model = None THEN Raised("complexity")
    ELSE [Answer("complexity", CLASSES[ArgMax(probabilities)], None,
                 probabilities[ArgMax(probabilities)], "None",
                 ComplexityContributionCount(model.feature_names))
            EXCEPT !.regressor = model.model]

\* InferenceService.predict_complexity on the manager's active model.
PredictComplexity(mgr, request, probabilities) ==
    LET features == PrepareComplexityFeatures(request.applicant, request.sum_assured,
                                              request.medical_disclosures)
        model == mgr.complexity_model
        p == ComplexityPredict(model, features, probabilities)
    IN  IF features.raised \/ p.raised THEN Raised("complexity")
        ELSE [p EXCEPT !.model_version = model.version, !.schema = model.feature_names]

\* A variant of the mapping whose lower threshold is exclusive.
GetRecommendationExclusive(yield_prob) ==
    IF yield_prob >= 60 THEN "recommended"
    ELSE IF yield_prob > 30 THEN "optional"
    ELSE "low_yield"

\* TestYieldModel._get_recommendation; yields are in hundredths.
GetRecommendation(yield_prob) ==
    IF yield_prob >= 60 THEN "recommended"
    ELSE IF yield_prob >= 30 THEN "optional"
    ELSE "low_yield"

\* TestYieldModel._calculate_confidence, in hundredths.
CalculateConfidence(features) ==
    LET number(f) == f \in DOMAIN features /\ features[f] # None
        string(f) == f \in DOMAIN features /\ features[f] # "None"
        flag(f) == f \in DOMAIN features
        score == 50 + (IF number("age") THEN 15 ELSE 0) + (IF number("bmi") THEN 15 ELSE 0)
                    + (IF string("smoking_status") THEN 5 ELSE 0)
                    + (IF flag("has_diabetes") THEN 5 ELSE 0)
                    + (IF flag("has_cardiac") THEN 5 ELSE 0)
    IN  IF score > 95 THEN 95 ELSE score

\* TestYieldModel._calculate_contributions: the entries in the order of the
\* appends, each with its contribution in units of 1/3000 (0.3 is 900,
\* 0.1 * (age - 35) / 30 is 10 * (age - 35), 0.15 is 450, 0.12 is 360).
TestContributions(test_code, features) ==
    LET entry(feature, contribution) ==
            [feature |-> feature, contribution |-> contribution,
             direction |-> "increases"]
        age == Get(features, "age", 35)
    IN    (IF HasRelatedCondition(test_code, features)
           THEN <<entry("related_condition", 900)>> ELSE <<>>)
       \o (IF age >= 45 THEN <<entry("age", 10 * (age - 35))>> ELSE <<>>)
       \o (IF Get(features, "bmi", 2400) >= 3000 /\ test_code \in {"LIPID", "HBA1C", "ECG"}
           THEN <<entry("bmi", 450)>> ELSE <<>>)
       \o (IF Get(features, "smoking_status", "None") = "current"
              /\ test_code \in {"ECG", "LIPID", "LFT"}
           THEN <<entry("smoking_status", 360)>> ELSE <<>>)

\* len of TestYieldModel._calculate_contributions.
TestContributionCount(test_code, features) ==
    Len(TestContributions(test_code, features))

\* The yield of TestYieldModel._rule_based_prediction, in hundredths.
RuleYield(test_code, features) ==
    LET age == Get(features, "age", 35)
        base == 30
            + (IF HasRelatedCondition(test_code, features) THEN 35 ELSE 0)
            + (IF age >= 55 THEN 15 ELSE IF age >= 45 THEN 8 ELSE 0)
            + (IF Get(features, "bmi", 2400) >= 3000 /\ test_code \in {"HBA1C", "LIPID"}
               THEN 12 ELSE 0)
            + (IF Get(features, "smoking_status", "None") = "current"
                  /\ test_code \in {"ECG", "LIPID", "LFT"}
               THEN 10 ELSE 0)
    IN  IF base > 95 THEN 95 ELSE base

\* Both paths of TestYieldModel.predict compare age and bmi with numbers:
\* a None among them raises TypeError.
TestCompareRaises(features) ==
    Get(features, "age", 35) = None \/ Get(features, "bmi", 2400) = None

\* TestYieldModel._rule_based_prediction.
TestRuleBasedPrediction(test_code, features) ==
    IF RelatedConditionRaises(test_code, features) \/ TestCompareRaises(features)
    THEN Raised(test_code)
    ELSE Answer(test_code, "None", RuleYield(test_code, features), 70,
                GetRecommendation(RuleYield(test_code, features)), 1)

\* A variant of the clamp that bounds the raw output from above only.
ClampAbove(y) == IF y > 100 THEN 100 ELSE y

\* max(0.0, min(1.0, y)).
Clamp(y) == IF y < 0 THEN 0 ELSE IF y > 100 THEN 100 ELSE y

\* TestYieldModel.predict; raw is what the regressor's predict returns on the
\* fitted path.
TestYieldPredict(model, test_code, features, raw) ==
    IF test_code \notin Tests THEN Raised(test_code)
    ELSE IF ~model.is_fitted[test_code] THEN TestRuleBasedPrediction(test_code, features)
    ELSE IF RelatedConditionRaises(test_code, features) THEN Raised(test_code)
    ELSE IF model.models[test_code] \in {None, Absent} THEN Raised(test_code)
    ELSE IF TestCompareRaises(features) THEN Raised(test_code)
    ELSE [Answer(test_code, "None", Clamp(raw), CalculateConfidence(features),
                 GetRecommendation(Clamp(raw)), TestContributionCount(test_code, features))
            EXCEPT !.regressor = model.models[test_code]]

\* InferenceService.predict_test_yield on the manager's active model.
PredictTestYield(mgr, test_code, request, raw) ==
    LET features == PrepareTestFeatures(test_code, request.applicant, request.sum_assured,
                                        request.medical_disclosures)
        model == mgr.test_yield_model
        p == TestYieldPredict(model, test_code, features, raw)
    IN  IF features.raised \/ p.raised THEN Raised(test_code)
        ELSE [p EXCEPT !.model_version = model.version, !.schema = model.feature_names]

\* ------------------------------------------------------------------ backend
\* What a fetch returns: a collection of records, kept as its size and, per
\* test code, the number of its records that carry that code.
Batch(n, per_test) == [n |-> n, per_test |-> per_test]

NoTests == [t \in Tests |-> 0]

\* The empty list: no record matched, or the fetch failed (see FetchOutcome).
EmptyBatch == Batch(0, NoTests)

\* What the backend holds: completed cases (three test codes with at least
\* 100 results, one with 60, one with 49) and overrides, or nothing.
CaseBatches ==
    { EmptyBatch,
      Batch(120, [NoTests EXCEPT !["HBA1C"] = 120, !["LIPID"] = 100,
                                 !["ECG"] = 100, !["LFT"] = 60, !["RFT"] = 49]) }

OverrideBatches ==
    { EmptyBatch,
      Batch(10, [NoTests EXCEPT !["HBA1C"] = 9, !["RFT"] = 1]) }

\* A smaller backend: cases with results for one test code only.
FewCaseBatches == { EmptyBatch, Batch(120, [NoTests EXCEPT !["HBA1C"] = 120]) }

FewOverrideBatches == { EmptyBatch }

\* A variant of the two fetches without the except clause's return []: the
\* caller gets whatever the backend's answer held.
FetchOutcomeUnguarded(raised, answer) == answer

\* DataLoader.fetch_cases_for_training / fetch_overrides: the backend's answer,
\* or [] when the request raised (network, timeout, HTTP status).
FetchOutcome(raised, answer) == IF raised THEN EmptyBatch ELSE answer

\* Everything a fetch can return from a backend holding one of answers.
FetchResults(answers) ==
    {FetchOutcome(raised, answer) : raised \in BOOLEAN, answer \in answers}

\* len(X) of DataLoader.prepare_complexity_dataset(cases, overrides).
ComplexityDatasetSize(cases, overrides) == cases.n + overrides.n

\* len(X) of DataLoader.prepare_test_yield_dataset(test_code, cases, overrides).
TestYieldDatasetSize(test_code, cases, overrides) ==
    cases.per_test[test_code] + overrides.per_test[test_code]

\* -------------------------------------------------------------------- Trainer
\* Trainer._generate_version: "v" + the clock formatted to the second.  The
\* clock counts whole seconds, and the tag of second t is the number t.
GenerateVersion(clock) == clock

NoModels == [t \in Tests |-> "None"]

\* The result dict of a training run; "None"/None mark keys that are not set.
NewResult(model_type) ==
    [model_type |-> model_type, status |-> "running", error |-> "None",
     samples_used |-> None, metrics |-> None, version |-> None,
     models |-> NoModels]

\* How one fit-and-save attempt goes: the environment's part of it.
Outcomes == {"ok", "fit_raises", "save_raises"}

\* A variant of train_complexity_model that hot-swaps the fitted model before
\* it saves it: a save that raises leaves the new model serving.
TrainComplexityModelSwapFirst(st, mgr, res, cases, overrides, force, outcome, fit_id, clock) ==
    LET n == ComplexityDatasetSize(cases, overrides)
        model == ComplexityFit(NewComplexityModel, fit_id)
        version == GenerateVersion(clock)
        versioned == [model EXCEPT !.version = version]
    IN  IF n = 0
        THEN [store |-> st, manager |-> mgr,
              result |-> [res EXCEPT !.status = "failed",
                                     !.error = "No training data available"]]
        ELSE IF n < MinTrainingSamples /\ ~force
        THEN [store |-> st, manager |-> mgr,
              result |-> [res EXCEPT !.status = "failed",
                                     !.error = "Insufficient training samples"]]
        ELSE IF outcome = "fit_raises"
        THEN [store |-> st, manager |-> mgr,
              result |-> [res EXCEPT !.status = "failed", !.error = "fit raised"]]
        ELSE IF outcome = "save_raises"
        THEN [store |-> st, manager |-> UpdateComplexityModel(mgr, versioned),
              result |-> [res EXCEPT !.status = "failed", !.error = "save raised"]]
        ELSE [store |-> ComplexitySave(versioned, st, version),
              manager |-> UpdateComplexityModel(mgr, versioned),
              result |-> [res EXCEPT !.status = "completed",
                                     !.samples_used = n,
                                     !.metrics = versioned.training_metrics,
                                     !.version = version]]

\* Trainer.train_complexity_model from the return of fetch_overrides to its
\* return: the new store, manager and result.
TrainComplexityModel(st, mgr, res, cases, overrides, force, outcome, fit_id, clock) ==
    LET n == ComplexityDatasetSize(cases, overrides)
        model == ComplexityFit(NewComplexityModel, fit_id)
        version == GenerateVersion(clock)
        versioned == [model EXCEPT !.version = version]
    IN  IF n = 0
        THEN [store |-> st, manager |-> mgr,
              result |-> [res EXCEPT !.status = "failed",
                                     !.error = "No training data available"]]
        ELSE IF n < MinTrainingSamples /\ ~force
        THEN [store |-> st, manager |-> mgr,
              result |-> [res EXCEPT !.status = "failed",
                                     !.error = "Insufficient training samples"]]
        ELSE IF outcome = "fit_raises"
        THEN [store |-> st, manager |-> mgr,
              result |-> [res EXCEPT !.status = "failed", !.error = "fit raised"]]
        ELSE IF outcome = "save_raises"
        THEN [store |-> st, manager |-> mgr,
              result |-> [res EXCEPT !.status = "failed", !.error = "save raised"]]
        ELSE [store |-> ComplexitySave(versioned, st, version),
              manager |-> UpdateComplexityModel(mgr, versioned),
              result |-> [res EXCEPT !.status = "completed",
                                     !.samples_used = n,
                                     !.metrics = versioned.training_metrics,
                                     !.version = version]]

\* Trainer.train_test_yield_model(test_code, cases, overrides, force, version)
\* on the accumulated [store, manager, models]: the per-test result goes to
\* models[test_code].
TrainTestYieldModel(acc, test_code, cases, overrides, force, version, outcome, fit_id) ==
    LET n == TestYieldDatasetSize(test_code, cases, overrides)
        min_samples == MinTrainingSamples \div 2
        test_model == acc.manager.test_yield_model
        fitted == TestYieldFit(test_model, test_code, fit_id)
        versioned == [fitted EXCEPT !.version = version]
    IN  IF n = 0
        THEN [acc EXCEPT !.models[test_code] = "skipped"]
        ELSE IF n < min_samples /\ ~force
        THEN [acc EXCEPT !.models[test_code] = "skipped"]
        ELSE IF outcome = "fit_raises"
        THEN [acc EXCEPT !.models[test_code] = "failed"]
        ELSE IF outcome = "save_raises"
        THEN [acc EXCEPT !.models[test_code] = "failed",
                         !.manager.test_yield_model = versioned]
        ELSE [acc EXCEPT !.models[test_code] = "completed",
                         !.manager.test_yield_model = versioned,
                         !.store = TestYieldSave(versioned, acc.store, test_code, version)]

RECURSIVE TrainTestsFrom(_, _, _, _, _, _, _, _)
TrainTestsFrom(acc, i, cases, overrides, force, version, outcomes, fit_id) ==
    IF i > Len(SUPPORTED_TESTS) THEN acc
    ELSE TrainTestsFrom(
            TrainTestYieldModel(acc, SUPPORTED_TESTS[i], cases, overrides, force,
                                version, outcomes[SUPPORTED_TESTS[i]], fit_id),
            i + 1, cases, overrides, force, version, outcomes, fit_id)

\* The test codes whose fit is attempted by a run over this data.
Attempted(cases, overrides, force) ==
    {t \in Tests :
        /\ TestYieldDatasetSize(t, cases, overrides) > 0
        /\ (force \/ TestYieldDatasetSize(t, cases, overrides) >= MinTrainingSamples \div 2)}

\* A variant of train_all_test_yield_models that calls the run completed only
\* when no test code's training failed.
TrainAllTestYieldModelsNoneFailed(st, mgr, res, cases, overrides, force, outcomes, fit_id, clock) ==
    LET version == GenerateVersion(clock)
        acc == TrainTestsFrom([store |-> st, manager |-> mgr, models |-> NoModels],
                              1, cases, overrides, force, version, outcomes, fit_id)
        failed == Cardinality({t \in Tests : acc.models[t] = "failed"})
    IN  [store |-> acc.store, manager |-> acc.manager,
         result |->
            IF failed = 0
            THEN [res EXCEPT !.status = "completed", !.version = version,
                             !.models = acc.models]
            ELSE [res EXCEPT !.status = "failed",
                             !.error = "No models could be trained",
                             !.models = acc.models]]

\* Trainer.train_all_test_yield_models from the return of fetch_overrides to
\* its return.
TrainAllTestYieldModels(st, mgr, res, cases, overrides, force, outcomes, fit_id, clock) ==
    LET version == GenerateVersion(clock)
        acc == TrainTestsFrom([store |-> st, manager |-> mgr, models |-> NoModels],
                              1, cases, overrides, force, version, outcomes, fit_id)
        succeeded == Cardinality({t \in Tests : acc.models[t] = "completed"})
    IN  [store |-> acc.store, manager |-> acc.manager,
         result |->
            IF succeeded > 0
            THEN [res EXCEPT !.status = "completed", !.version = version,
                             !.models = acc.models]
            ELSE [res EXCEPT !.status = "failed",
                             !.error = "No models could be trained",
                             !.models = acc.models]]

\* ---------------------------------------------------------- training-job API
\* A variant of the job record trigger_training creates: registered as
\* running from the start.
NewJobRunning(job_id, model_type) ==
    [job_id |-> job_id, model_type |-> model_type, status |-> "running",
     started_at |-> "None", completed_at |-> "None", samples_used |-> None,
     metrics |-> None, error |-> "None"]

\* TrainingJobStatus(job_id, model_type, status="pending").
NewJob(job_id, model_type) ==
    [job_id |-> job_id, model_type |-> model_type, status |-> "pending",
     started_at |-> "None", completed_at |-> "None", samples_used |-> None,
     metrics |-> None, error |-> "None"]

\* A variant of the first statements of run_training that records the start
\* time and leaves the status alone.
JobStartedQuietly(job) == [job EXCEPT !.started_at = "set"]

\* run_training, first statements: the job starts running.  The two timestamps
\* of a job are kept as "None" or "set": no step reads their value.
JobStarted(job) == [job EXCEPT !.status = "running", !.started_at = "set"]

\* A variant of the statements after trainer.train that records the end time
\* and the figures and leaves the status alone.
JobReturnedQuietly(job, result) ==
    [job EXCEPT !.completed_at = "set",
                !.samples_used = result.samples_used,
                !.metrics = result.metrics]

\* run_training after trainer.train returned result.
JobReturned(job, result) ==
    [job EXCEPT !.status = "completed", !.completed_at = "set",
                !.samples_used = result.samples_used,
                !.metrics = result.metrics]

\* The answer for a job id that training_jobs does not hold: HTTP 404.
NotFound == [NewJob(0, "None") EXCEPT !.status = "not_found"]

\* GET /training/status/{job_id} on the registry jobs.
GetTrainingStatus(jobs, job_id) ==
    IF job_id \notin DOMAIN jobs THEN NotFound ELSE jobs[job_id]

ModelTypes == {"complexity", "test_yield"}

\* ------------------------------------------------------------------ requests
\* ApplicantData, MedicalDisclosure and the two prediction requests of the API
\* schemas, as the dicts model_dump() hands to the InferenceService.
Applicant(age, bmi, smoking_status, height_cm, weight_kg) ==
    [age |-> age, bmi |-> bmi, smoking_status |-> smoking_status,
     height_cm |-> height_cm, weight_kg |-> weight_kg]

Condition(name) ==
    [disclosure_type |-> "condition", condition_name |-> name, family_condition |-> "None"]

FamilyHistory(name) ==
    [disclosure_type |-> "family_history", condition_name |-> "None",
     family_condition |-> name]

Request(applicant, sum_assured, medical_disclosures) ==
    [applicant |-> applicant, sum_assured |-> sum_assured,
     medical_disclosures |-> medical_disclosures]

\* No call: the request slot before the first prediction.
NoRequest == Request(Applicant(None, None, "None", None, None), None, <<>>)

\* A prediction call and what it gave back.
Call(request, response) == [request |-> request, response |-> response]

NoPrediction == Call(NoRequest, NoResponse)

\* The case data of a feature comparison: nothing compared.
NoParity ==
    [applicant |-> NoRequest.applicant, sum_assured |-> None, disclosures |-> <<>>,
     test_code |-> "None", training |-> <<>>, serving |-> <<>>]

\* ---------------------------------------------------------------------- state
VARIABLES
    now,             \* the wall clock at the latest reading, in seconds
    store,           \* the model directory: artifact path -> artifact
    manager,         \* routes.model_manager
    training_jobs,   \* routes.training_jobs: sequence indexed by job id
    tasks,           \* per job: the background task run_training and its locals
    last_prediction, \* the latest prediction call and what it gave back
    parity           \* a case's data and the vectors built from it

vars == <<now, store, manager, training_jobs, tasks, last_prediction, parity>>

NoArtifacts == [p \in {} |-> Artifact(None, <<>>, None, None)]

\* The model directory at startup: empty, or holding the configured version
\* written by an earlier release (a complexity model and two test models).
InitialStores ==
    { NoArtifacts,
      [p \in {ComplexityPath(CurrentModelVersion),
              TestPath("HBA1C", CurrentModelVersion),
              TestPath("ECG", CurrentModelVersion)} |->
          IF p = ComplexityPath(CurrentModelVersion)
          THEN Artifact(PreFit, LegacyFeatures, CurrentModelVersion, PreFit)
          ELSE Artifact(PreFit, TestYieldFeatures, CurrentModelVersion, PreFit)] }

\* Import of the routes module: ModelManager() loads the configured version.
Init ==
    /\ now = 1
    /\ store \in InitialStores
    /\ manager = LoadModels(store, CurrentModelVersion)
    /\ training_jobs = <<>>
    /\ tasks = <<>>
    /\ last_prediction = NoPrediction
    /\ parity = NoParity

\* POST /training/trigger: the job is registered and its task queued.
TriggerTraining(model_type, force, cap) ==
    /\ Len(training_jobs) < cap
    /\ LET job_id == Len(training_jobs) + 1 IN
        /\ training_jobs' = Append(training_jobs, NewJob(job_id, model_type))
        /\ tasks' = Append(tasks,
                [pc |-> "queued", model_type |-> model_type, force |-> force,
                 cases |-> EmptyBatch, result |-> NewResult(model_type)])
    /\ UNCHANGED <<now, store, manager, last_prediction, parity>>

\* run_training starts: up to the await of the cases fetch.
RunTraining(j) ==
    /\ tasks[j].pc = "queued"
    /\ training_jobs' = [training_jobs EXCEPT ![j] = JobStarted(@)]
    /\ tasks' = [tasks EXCEPT ![j].pc = "fetch_cases"]
    /\ UNCHANGED <<now, store, manager, last_prediction, parity>>

\* The cases fetch returns cases; the overrides fetch is awaited.
CasesFetched(j, cases) ==
    /\ tasks[j].pc = "fetch_cases"
    /\ tasks' = [tasks EXCEPT ![j].pc = "fetch_overrides", ![j].cases = cases]
    /\ UNCHANGED <<now, store, manager, training_jobs, last_prediction, parity>>

\* The outcome of every test code's fit-and-save attempt: kinds tells how
\* each of the faulty ones fails.
AllOutcomes(faulty, kinds) ==
    [t \in Tests |-> IF t \in faulty THEN kinds[t] ELSE "ok"]

\* The overrides fetch of a complexity run returns overrides at time clock;
\* the run goes on to its end without yielding, and run_training records the
\* job's end.
ComplexityRun(j, overrides, outcome, clock) ==
    /\ tasks[j].pc = "fetch_overrides"
    /\ tasks[j].model_type = "complexity"
    /\ LET t == tasks[j]
           out == TrainComplexityModel(store, manager, t.result, t.cases,
                        overrides, t.force, outcome, j, clock)
       IN  /\ store' = out.store
           /\ manager' = out.manager
           /\ tasks' = [tasks EXCEPT ![j].pc = "done", ![j].cases = EmptyBatch,
                                     ![j].result = out.result]
           /\ training_jobs' =
                [training_jobs EXCEPT ![j] = JobReturned(@, out.result)]
    /\ now' = clock
    /\ UNCHANGED <<last_prediction, parity>>

\* The same for a test-yield run; at most MaxFaults of its attempts fail.
TestYieldRun(j, overrides, clock) ==
    /\ tasks[j].pc = "fetch_overrides"
    /\ tasks[j].model_type = "test_yield"
    /\ LET t == tasks[j]
           attempted == Attempted(t.cases, overrides, t.force)
       IN  \E faulty \in {f \in SUBSET attempted : Cardinality(f) <= MaxFaults} :
           \E kinds \in [faulty -> Outcomes \ {"ok"}] :
             LET out == TrainAllTestYieldModels(store, manager, t.result, t.cases,
                            overrides, t.force, AllOutcomes(faulty, kinds), j, clock)
             IN  /\ store' = out.store
                 /\ manager' = out.manager
                 /\ tasks' = [tasks EXCEPT ![j].pc = "done",
                                           ![j].cases = EmptyBatch,
                                           ![j].result = out.result]
                 /\ training_jobs' =
                      [training_jobs EXCEPT ![j] = JobReturned(@, out.result)]
    /\ now' = clock
    /\ UNCHANGED <<last_prediction, parity>>

\* ModelManager.reload_models(version); None: no version given.
ReloadModels(version) ==
    /\ manager' = LoadModels(store, IF version = None THEN manager.current_version
                                    ELSE version)
    /\ UNCHANGED <<now, store, training_jobs, tasks, last_prediction, parity>>

\* A call of ModelManager.update_test_yield_model(test_code, model).
CallUpdateTestYieldModel(test_code, model) ==
    /\ manager' = UpdateTestYieldModel(manager, test_code, model)
    /\ UNCHANGED <<now, store, training_jobs, tasks, last_prediction, parity>>

\* A call of TestYieldModel.fit(test_code, X, y) on the active model.
FitCall(test_code) ==
    /\ manager' = [manager EXCEPT !.test_yield_model =
                        TestYieldFitCall(@, test_code, ExternalFit).model]
    /\ UNCHANGED <<now, store, training_jobs, tasks, last_prediction, parity>>

\* A call of ModelManager.save_test_yield_model(test_code, version).
SaveCall(test_code, version) ==
    /\ store' = TestYieldSaveCall(manager.test_yield_model, store, test_code, version).store
    /\ UNCHANGED <<now, manager, training_jobs, tasks, last_prediction, parity>>

\* POST /classify-complexity.
ClassifyComplexity(request, probabilities) ==
    /\ last_prediction' = Call(request, PredictComplexity(manager, request, probabilities))
    /\ UNCHANGED <<now, store, manager, training_jobs, tasks, parity>>

\* POST /predict-test-yield.
PredictTestYieldCall(test_code, request, raw) ==
    /\ last_prediction' = Call(request, PredictTestYield(manager, test_code, request, raw))
    /\ UNCHANGED <<now, store, manager, training_jobs, tasks, parity>>

\* ------------------------------------------------------------------- inputs
\* The worked example of the design: every optional value given.
WorkedExample ==
    Request(Applicant(60, 3200, "current", None, None), 12000,
            <<Condition("Coronary artery disease")>>)

\* A request that leaves age, bmi and smoking_status null.
UndisclosedRequest == Request(Applicant(None, None, "None", None, None), 3000, <<>>)

ServedRequests == {WorkedExample, UndisclosedRequest}

ServedTests == {"HBA1C", "ECHO"}

ProbabilityOutputs == { <<10, 20, 70>>, <<40, 40, 20>> }

RawOutputs == { 45, 130 }

\* Models handed to update_test_yield_model: a new one, and one fitted for ECHO.
ExternalModels == { NewTestYieldModel, TestYieldFit(NewTestYieldModel, "ECHO", ExternalFit) }

Clocks == now..MaxClock

\* A case's values, for the two feature pipelines.
ParityApplicants ==
    { Applicant(60, 3200, "current", None, None),
      Applicant(41, None, "former", 170, 70),
      Applicant(None, None, "None", None, None) }

ParityDisclosures ==
    {<<>>, <<FamilyHistory("Coronary artery disease")>>, <<FamilyHistory("Type 2 diabetes")>>}
    \cup {<<Condition(name)>> : name \in
            {"Coronary artery disease", "Heart disease", "Arrhythmia", "Type 2 diabetes",
             "Hypertension", "Chronic kidney disease", "Nephropathy", "Liver cirrhosis"}}

ParitySums == {3000, 12000}

\* DataLoader builds the training rows of the case: the complexity row and the
\* row of the case's test code.
ExtractTrainingRows ==
    /\ parity.test_code # "None"
    /\ parity.training = <<>>
    /\ parity' = [parity EXCEPT !.training =
            << TrainingRow(ExtractCaseFeatures(parity.applicant, parity.sum_assured,
                                               parity.disclosures), ComplexityFeatures),
               TrainingRow(ExtractTestFeatures(parity.test_code, parity.applicant,
                                parity.sum_assured, parity.disclosures), TestYieldFeatures) >>]
    /\ UNCHANGED <<now, store, manager, training_jobs, tasks, last_prediction>>

\* The vector TestYieldModel._extract_features builds, <<Absent>> when it raises.
ServingTestVector(test_code, features) ==
    IF RelatedConditionRaises(test_code, features) THEN <<Absent>>
    ELSE TestExtractFeatures(TestYieldFeatures, test_code, features)

\* The same values arrive in a request: the InferenceService prepares the
\* features and each model extracts its vector.
ExtractServingVectors ==
    /\ parity.test_code # "None"
    /\ parity.serving = <<>>
    /\ parity' = [parity EXCEPT !.serving =
            << ComplexityExtractFeatures(ComplexityFeatures,
                    PrepareComplexityFeatures(parity.applicant, parity.sum_assured,
                                              parity.disclosures)),
               ServingTestVector(parity.test_code,
                    PrepareTestFeatures(parity.test_code, parity.applicant,
                                        parity.sum_assured, parity.disclosures)) >>]
    /\ UNCHANGED <<now, store, manager, training_jobs, tasks, last_prediction>>

\* -------------------------------------------------------------- specifications
Training(cap, case_batches, override_batches) ==
    \/ \E model_type \in ModelTypes, force \in BOOLEAN : TriggerTraining(model_type, force, cap)
    \/ \E j \in DOMAIN tasks : RunTraining(j)
    \/ \E j \in DOMAIN tasks, cases \in FetchResults(case_batches) : CasesFetched(j, cases)
    \/ \E j \in DOMAIN tasks, overrides \in FetchResults(override_batches),
          outcome \in Outcomes, clock \in Clocks :
            ComplexityRun(j, overrides, outcome, clock)
    \/ \E j \in DOMAIN tasks, overrides \in FetchResults(override_batches),
          clock \in Clocks : TestYieldRun(j, overrides, clock)

Serving ==
    \/ \E version \in Versions \cup {None} : ReloadModels(version)
    \/ \E model \in ExternalModels : CallUpdateTestYieldModel("ECHO", model)
    \/ \E request \in ServedRequests, probabilities \in ProbabilityOutputs :
            ClassifyComplexity(request, probabilities)
    \/ \E test_code \in ServedTests, request \in ServedRequests, raw \in RawOutputs :
            PredictTestYieldCall(test_code, request, raw)

\* The training subsystem: jobs triggered, run and interleaved at their awaits.
Next == Training(MaxJobs, CaseBatches, OverrideBatches)

Spec == Init /\ [][Next]_vars

\* The next step of job j's background task: it starts, or the fetch it
\* awaits returns (httpx gives an answer or raises within its timeout) and the
\* run goes on to its next await or to its end.
TaskStep(j) ==
    /\ j \in DOMAIN tasks
    /\ \/ RunTraining(j)
       \/ \E cases \in FetchResults(FewCaseBatches) : CasesFetched(j, cases)
       \/ \E overrides \in FetchResults(FewOverrideBatches), outcome \in Outcomes,
             clock \in Clocks : ComplexityRun(j, overrides, outcome, clock)
       \/ \E overrides \in FetchResults(FewOverrideBatches), clock \in Clocks :
               TestYieldRun(j, overrides, clock)

\* The training subsystem over the smaller backend.
FairNext == Training(MaxJobs, FewCaseBatches, FewOverrideBatches)

\* The same when the event loop runs every background task that can take a
\* step.
FairSpec == Init /\ [][FairNext]_vars /\ \A j \in JobIds : WF_vars(TaskStep(j))

\* The service as a whole: training runs, the manager's operations and
\* prediction requests, interleaved.
ServeNext == Training(MaxServeJobs, FewCaseBatches, FewOverrideBatches) \/ Serving

ServeSpec == Init /\ [][ServeNext]_vars

\* A test-yield feature schema configured by an earlier release.
LegacyTestFeatures == <<"age", "bmi", "smoking_status">>

\* The model directory when the entry points are called: as at startup, or
\* holding an HBA1C artifact that an earlier release saved under the
\* test-yield schema configured then.
EntryStores ==
    InitialStores \cup
    { [p \in {TestPath("HBA1C", CurrentModelVersion)} |->
          Artifact(PreFit, LegacyTestFeatures, CurrentModelVersion, PreFit)] }

EntryInit ==
    /\ now = 1
    /\ store \in EntryStores
    /\ manager = LoadModels(store, CurrentModelVersion)
    /\ training_jobs = <<>>
    /\ tasks = <<>>
    /\ last_prediction = NoPrediction
    /\ parity = NoParity

\* The test codes the entry points are called with.
EntryTests == {"HBA1C", "XYZ"}

\* The entry points of the test-yield family called with supported and
\* unsupported test codes, on the models loaded at startup.
EntryNext ==
    \/ \E version \in Versions \cup {None} : ReloadModels(version)
    \/ \E test_code \in EntryTests, model \in ExternalModels :
            CallUpdateTestYieldModel(test_code, model)
    \/ \E test_code \in EntryTests : FitCall(test_code)
    \/ \E test_code \in EntryTests, version \in {None, MaxClock} :
            SaveCall(test_code, version)
    \/ \E test_code \in EntryTests, request \in ServedRequests, raw \in RawOutputs :
            PredictTestYieldCall(test_code, request, raw)

EntrySpec == EntryInit /\ [][EntryNext]_vars

\* An applicant dict that carries a date of birth.
BornOn(applicant, date_of_birth) ==
    [k \in DOMAIN applicant \cup {"date_of_birth"} |->
        IF k = "date_of_birth" THEN date_of_birth ELSE applicant[k]]

\* Applicants whose age is given, or derived from a date of birth (with the
\* birthday on the day after the first clock reading, or months away), or
\* not derivable.
DatedApplicants ==
    { BornOn(Applicant(60, 3200, "current", None, None), <<1966, 11, 4>>),
      BornOn(Applicant(None, None, "former", 170, 70), <<1985, 11, 4>>),
      BornOn(Applicant(None, 2750, "None", None, None), <<1985, 6, 15>>),
      BornOn(Applicant(None, None, "None", None, None), <<>>),
      BornOn(Applicant(None, 2750, "current", None, None), <<0>>) }

FeatureSchemas == {ComplexityFeatures, TestYieldFeatures}

\* FeatureEngineer.prepare_features called on a case's values at time clock.
ExtractOnce(clock) ==
    /\ parity.first = <<>>
    /\ parity' = [parity EXCEPT !.first =
            PrepareFeatures(parity.applicant, parity.sum_assured, parity.disclosures,
                            parity.feature_names, Today(clock))]
    /\ now' = clock
    /\ UNCHANGED <<store, manager, training_jobs, tasks, last_prediction>>

\* The same call on the same values, at a later time clock.
ExtractAgain(clock) ==
    /\ parity.first # <<>>
    /\ parity.second = <<>>
    /\ parity' = [parity EXCEPT !.second =
            PrepareFeatures(parity.applicant, parity.sum_assured, parity.disclosures,
                            parity.feature_names, Today(clock))]
    /\ now' = clock
    /\ UNCHANGED <<store, manager, training_jobs, tasks, last_prediction>>

\* FeatureEngineer extraction invoked twice on one case.
TwiceInit ==
    /\ now = 1
    /\ store = NoArtifacts
    /\ manager = LoadModels(store, CurrentModelVersion)
    /\ training_jobs = <<>>
    /\ tasks = <<>>
    /\ last_prediction = NoPrediction
    /\ \E applicant \in DatedApplicants, sum_assured \in ParitySums,
          disclosures \in ParityDisclosures, feature_names \in FeatureSchemas :
            parity = [applicant |-> applicant, sum_assured |-> sum_assured,
                      disclosures |-> disclosures, feature_names |-> feature_names,
                      first |-> <<>>, second |-> <<>>]

TwiceNext ==
    \/ \E clock \in Clocks : ExtractOnce(clock)
    \/ \E clock \in Clocks : ExtractAgain(clock)

TwiceSpec == TwiceInit /\ [][TwiceNext]_vars

\* The model directory when predictions are asked for: as at startup, or
\* holding the configured version as an earlier training run wrote it, a
\* complexity model and a regressor for every test code.
PredictStores ==
    InitialStores \cup
    { [p \in {ComplexityPath(CurrentModelVersion)}
              \cup {TestPath(t, CurrentModelVersion) : t \in Tests} |->
          IF p = ComplexityPath(CurrentModelVersion)
          THEN Artifact(PreFit, ComplexityFeatures, CurrentModelVersion, PreFit)
          ELSE Artifact(PreFit, TestYieldFeatures, CurrentModelVersion, PreFit)] }

PredictInit ==
    /\ now = 1
    /\ store \in PredictStores
    /\ manager = LoadModels(store, CurrentModelVersion)
    /\ training_jobs = <<>>
    /\ tasks = <<>>
    /\ last_prediction = NoPrediction
    /\ parity = NoParity

\* Requests with a valid applicant profile: an age, a bmi given or derivable
\* from height and weight, a smoking status.
PredictRequests ==
    { Request(Applicant(age, body[1], smoking_status, body[2], body[3]),
              sum_assured, medical_disclosures) :
        age \in {30, 55, 65},
        body \in {<<2400, None, None>>, <<3200, None, None>>, <<3500, None, None>>,
                  <<None, 170, 70>>},
        smoking_status \in {"never", "current"},
        sum_assured \in {3000, 12000},
        medical_disclosures \in
            { <<>>, <<Condition("Coronary artery disease")>>,
              <<Condition("Type 2 diabetes")>>, <<Condition("Chronic kidney disease")>>,
              <<Condition("Coronary artery disease"), Condition("Type 2 diabetes")>> } }

\* One prediction call on the models loaded at startup.
PredictNext ==
    /\ last_prediction = NoPrediction
    /\ \/ \E request \in PredictRequests \cup {WorkedExample},
              probabilities \in ProbabilityOutputs :
                ClassifyComplexity(request, probabilities)
       \/ \E test_code \in Tests, request \in PredictRequests,
              raw \in RawOutputs \cup {-50, 10, 30, 60} :
                PredictTestYieldCall(test_code, request, raw)

PredictSpec == PredictInit /\ [][PredictNext]_vars

\* The two feature pipelines applied to one case.
FeatInit ==
    /\ now = 1
    /\ store = NoArtifacts
    /\ manager = LoadModels(store, CurrentModelVersion)
    /\ training_jobs = <<>>
    /\ tasks = <<>>
    /\ last_prediction = NoPrediction
    /\ \E applicant \in ParityApplicants, sum_assured \in ParitySums,
          disclosures \in ParityDisclosures, test_code \in Tests :
            parity = [applicant |-> applicant, sum_assured |-> sum_assured,
                      disclosures |-> disclosures, test_code |-> test_code,
                      training |-> <<>>, serving |-> <<>>]

FeatNext == ExtractTrainingRows \/ ExtractServingVectors

FeatSpec == FeatInit /\ [][FeatNext]_vars

\* ----------------------------------------------------------------- properties
\* The step of job j: the one step that changes tasks[j].
StepOf(j) == j \in DOMAIN tasks /\ tasks'[j] # tasks[j]

\* Job j's run returns in this step.
Returns(j) == StepOf(j) /\ tasks'[j].pc = "done"

\* C1: a training run that fails (a failed fetch or fit, an empty dataset, too
\* few samples without force) ends its TrainingJob with status failed and an
\* error message, never with status completed.
C1_FailedRunEndsJobFailed ==
    \A j \in DOMAIN tasks :
        (tasks[j].pc = "done" /\ tasks[j].result.status = "failed")
            => /\ training_jobs[j].status = "failed"
               /\ training_jobs[j].error # "None"

\* C2: no step of a complexity training run changes the manager's complexity
\* model, except the return of a run that completed: a run that ends failed
\* (no data, too few samples, fit or save raising) leaves the serving model,
\* its version, fitted flag and metrics as they were.
C2_FailedComplexityRunKeepsModel ==
    [][\A j \in DOMAIN tasks :
        (/\ StepOf(j)
         /\ tasks[j].model_type = "complexity"
         /\ ~(tasks'[j].pc = "done" /\ tasks'[j].result.status = "completed"))
            => manager'.complexity_model = manager.complexity_model]_vars

\* A complexity run failed at its save while a fitted model was serving.
C2_Witness ==
    \E j \in DOMAIN tasks :
        /\ tasks[j].pc = "done"
        /\ tasks[j].model_type = "complexity"
        /\ tasks[j].result.error = "save raised"
        /\ manager.complexity_model.is_fitted

\* C3: when a test-yield run returns, every test code whose outcome is failed
\* or skipped has the same regressor, fitted flag and metrics in the active
\* TestYieldModel as before the run's fits.
C3_FailedOrSkippedCodeUntouched ==
    [][\A j \in DOMAIN tasks, t \in Tests :
        (/\ Returns(j)
         /\ tasks[j].model_type = "test_yield"
         /\ tasks'[j].result.models[t] \in {"failed", "skipped"})
            => /\ manager'.test_yield_model.models[t] = manager.test_yield_model.models[t]
               /\ manager'.test_yield_model.is_fitted[t] = manager.test_yield_model.is_fitted[t]
               /\ manager'.test_yield_model.training_metrics[t]
                    = manager.test_yield_model.training_metrics[t]]_vars

\* C4: a prediction answered while training runs are suspended or returning
\* reports the schema and version tag of one whole model: for the complexity
\* family the new unfitted model or a model exactly as an artifact records it
\* (regressor, schema and tag together), for the test-yield family the schema
\* and tag of the model active when it was answered.
C4_PredictionSeesOneModel ==
    [][LET r == last_prediction'.response IN
       (last_prediction' # last_prediction /\ ~r.raised) =>
          IF r.target = "complexity"
          THEN \/ /\ r.regressor = None
                  /\ r.schema = ComplexityFeatures
                  /\ r.model_version = DefaultVersion
               \/ \E p \in DOMAIN store :
                    /\ p = ComplexityPath(r.model_version)
                    /\ store[p].model = r.regressor
                    /\ store[p].feature_names = r.schema
                    /\ store[p].version = r.model_version
          ELSE /\ r.schema = manager.test_yield_model.feature_names
               /\ r.model_version = manager.test_yield_model.version]_vars

\* A prediction was answered by the model loaded at startup, and a training
\* run has swapped its model in since.
C4_Witness ==
    /\ last_prediction.response.target = "complexity"
    /\ last_prediction.response.regressor = PreFit
    /\ last_prediction.response.schema = LegacyFeatures
    /\ manager.complexity_model.model \in JobIds
    /\ manager.complexity_model.feature_names = ComplexityFeatures

\* C5: a classifier or regressor fitted by a training run answers a
\* prediction only after it was persisted under its version tag: the store
\* holds it at the path of the tag the prediction reports.
C5_ServedOnlyAfterPersisted ==
    LET r == last_prediction.response
        path == IF r.target = "complexity" THEN ComplexityPath(r.model_version)
                ELSE TestPath(r.target, r.model_version)
    IN  r.regressor \in JobIds =>
            (path \in DOMAIN store /\ store[path].model = r.regressor)

\* C6: no step writes to an artifact path that already holds an artifact.
C6_VersionsNeverOverwritten ==
    [][\A p \in DOMAIN store : p \in DOMAIN store' /\ store'[p] = store[p]]_vars

\* C7: a job's status changes only from pending to running and from running
\* to completed or failed; a completed or failed job keeps its status.
C7_StatusMonotonic ==
    [][\A j \in DOMAIN training_jobs :
        \/ training_jobs'[j].status = training_jobs[j].status
        \/ /\ training_jobs[j].status = "pending"
           /\ training_jobs'[j].status = "running"
        \/ /\ training_jobs[j].status = "running"
           /\ training_jobs'[j].status \in {"completed", "failed"}]_vars

\* One job has completed and another, started later, is running.
C7_Witness ==
    \E j, k \in DOMAIN training_jobs :
        /\ training_jobs[j].status = "completed"
        /\ training_jobs[k].status = "running"

\* A structurally complete answer: a tier or a yield, a confidence, a
\* contribution list and a model version.
Complete(r) ==
    /\ ~r.raised
    /\ IF r.target = "complexity" THEN r.tier \in {"ROUTINE", "MODERATE", "COMPLEX"}
       ELSE r.predicted_yield \in 0..100 /\ r.recommendation # "None"
    /\ r.confidence \in 0..100
    /\ r.n_contributions >= 0
    /\ r.model_version \in Versions

\* C8: after any sequence of loads, reloads, training runs and hot-swaps, a
\* prediction call for a request with every value given (and a supported test
\* code) returns a structurally complete answer and does not raise.
C8_PredictionsComplete ==
    last_prediction.request = WorkedExample => Complete(last_prediction.response)

\* The request with its null age, bmi and smoking_status replaced by the
\* documented defaults 35, 24.0 and "never".
WithDefaults(request) ==
    [request EXCEPT
        !.applicant.age = IF @ = None THEN 35 ELSE @,
        !.applicant.bmi = IF @ = None THEN 2400 ELSE @,
        !.applicant.smoking_status = IF @ = "None" THEN "never" ELSE @]

\* C9: a prediction for a request whose age, bmi and smoking_status are null
\* does not raise, and on the fallback path it is the prediction of the same
\* request with the defaults substituted.
C9_NullInputsGetDefaults ==
    [][LET c == last_prediction' IN
       (c # last_prediction /\ c.request = UndisclosedRequest) =>
          /\ ~c.response.raised
          /\ (c.response.regressor = None =>
                c.response =
                    IF c.response.target = "complexity"
                    THEN PredictComplexity(manager, WithDefaults(c.request), <<100, 0, 0>>)
                    ELSE PredictTestYield(manager, c.response.target,
                                          WithDefaults(c.request), 0))]_vars

\* C10: the rows the DataLoader builds from a case equal, component by
\* component, the vectors built at serving time from the same values, for the
\* complexity schema and for the test-yield schema of the case's test code.
C10_TrainServeParity ==
    (parity.training # <<>> /\ parity.serving # <<>>) => parity.training = parity.serving

\* C11: a test-yield run that has returned holds one outcome (completed,
\* skipped or failed) for each of the nine supported test codes, and its
\* status is completed if some test code's outcome is completed and failed
\* otherwise.
C11_RunCompletedIffSomeCodeCompleted ==
    \A j \in DOMAIN tasks :
        (tasks[j].pc = "done" /\ tasks[j].model_type = "test_yield") =>
            LET r == tasks[j].result IN
            /\ DOMAIN r.models = Tests
            /\ Cardinality(Tests) = 9
            /\ \A t \in Tests : r.models[t] \in {"completed", "skipped", "failed"}
            /\ r.status = IF \E t \in Tests : r.models[t] = "completed"
                          THEN "completed" ELSE "failed"

\* A run ended completed with one test code completed, one failed and the
\* others skipped.
C11_Witness ==
    \E j \in DOMAIN tasks :
        /\ tasks[j].pc = "done"
        /\ tasks[j].model_type = "test_yield"
        /\ tasks[j].result.status = "completed"
        /\ \E t, u \in Tests :
            /\ tasks[j].result.models[t] = "completed"
            /\ tasks[j].result.models[u] = "failed"
            /\ \A w \in Tests \ {t, u} : tasks[j].result.models[w] = "skipped"

\* Every fit and save goes well.
AllOk == [t \in Tests |-> "ok"]

\* The test codes for which the fetched data holds at least the configured
\* minimum number of samples.
WithMinimum(cases, overrides) ==
    {t \in Tests : TestYieldDatasetSize(t, cases, overrides) >= MinTrainingSamples}

\* C12: an unforced test-yield run over fetched data in which exactly 3 of
\* the 9 test codes have at least the configured minimum number of samples,
\* and in which no fit or save raises, returns status completed with exactly
\* 3 test codes completed and exactly 6 skipped.
C12_ThreeTrainedSixSkipped ==
    [][\A j \in DOMAIN tasks, overrides \in FetchResults(OverrideBatches) :
        (/\ Returns(j)
         /\ tasks[j].model_type = "test_yield"
         /\ ~tasks[j].force
         /\ Cardinality(WithMinimum(tasks[j].cases, overrides)) = 3
         /\ tasks'[j].result =
                TrainAllTestYieldModels(store, manager, tasks[j].result, tasks[j].cases,
                                        overrides, FALSE, AllOk, j, now').result)
            => LET r == tasks'[j].result IN
               /\ r.status = "completed"
               /\ Cardinality({t \in Tests : r.models[t] = "completed"}) = 3
               /\ Cardinality({t \in Tests : r.models[t] = "skipped"}) = 6]_vars

\* C13: a hot-swap changes the named model only.  A step of a complexity
\* training run, the hot-swap of its model included, leaves the active
\* test-yield model as it was; and update_test_yield_model(t, model), called
\* in any state with any test code, leaves the complexity model and every
\* other test code's regressor, fitted flag and metrics as they were.
C13_SwapChangesNamedModelOnly ==
    [][/\ \A j \in DOMAIN tasks :
            (StepOf(j) /\ tasks[j].model_type = "complexity")
                => manager'.test_yield_model = manager.test_yield_model
       /\ \A t \in Tests, model \in ExternalModels :
            LET swapped == UpdateTestYieldModel(manager, t, model) IN
            /\ swapped.complexity_model = manager.complexity_model
            /\ \A u \in Tests \ {t} :
                /\ swapped.test_yield_model.models[u] = manager.test_yield_model.models[u]
                /\ swapped.test_yield_model.is_fitted[u]
                        = manager.test_yield_model.is_fitted[u]
                /\ swapped.test_yield_model.training_metrics[u]
                        = manager.test_yield_model.training_metrics[u]]_vars

\* Both hot-swaps have acted: a training run's complexity model and an
\* external ECHO regressor are active, next to the HBA1C regressor loaded at
\* startup.
C13_Witness ==
    /\ manager.complexity_model.model \in JobIds
    /\ manager.test_yield_model.models["ECHO"] = ExternalFit
    /\ manager.test_yield_model.models["HBA1C"] = PreFit
    /\ manager.test_yield_model.is_fitted["HBA1C"]

\* The regressors and fitted flags TestYieldModel m holds for the test codes
\* other than t.
OtherCodes(m, t) ==
    [u \in Tests \ {t} |-> <<m.models[u], m.is_fitted[u]>>]

\* C14: each test code has its own regressor and fitted flag.  Whenever a
\* step has changed the manager or the store, fit of a test code and the load
\* of a test code, applied to what the step left, leave every other test
\* code's regressor and fitted flag as they were.  When a test-yield run
\* returns, a test code with enough case data was not skipped, whatever data
\* the other test codes had; every test code that completed is active with
\* the run's regressor; and every test code that was skipped has the
\* regressor and fitted flag it had, whatever the run did for the other test
\* codes.  A prediction for a test code holding a trained regressor is
\* answered by that regressor.
C14_TestCodesIndependent ==
    [][/\ (manager' # manager \/ store' # store) =>
            \A t \in Tests :
                LET m == manager'.test_yield_model
                    others == OtherCodes(manager'.test_yield_model, t)
                IN
                /\ OtherCodes(TestYieldFit(m, t, ExternalFit), t) = others
                /\ \A version \in Versions :
                        OtherCodes(TestYieldLoadOne(m, store', t, version), t) = others
       /\ \A j \in DOMAIN tasks, u \in Tests :
            (Returns(j) /\ tasks[j].model_type = "test_yield") =>
                /\ tasks[j].cases.per_test[u] >= MinTrainingSamples \div 2
                        => tasks'[j].result.models[u] # "skipped"
                /\ tasks'[j].result.models[u] = "completed"
                        => /\ manager'.test_yield_model.models[u] = j
                           /\ manager'.test_yield_model.is_fitted[u]
                /\ tasks'[j].result.models[u] = "skipped"
                        => /\ manager'.test_yield_model.models[u]
                                = manager.test_yield_model.models[u]
                           /\ manager'.test_yield_model.is_fitted[u]
                                = manager.test_yield_model.is_fitted[u]
       /\ LET c == last_prediction' IN
            (/\ c # last_prediction
             /\ c.request = WorkedExample
             /\ c.response.target \in Tests
             /\ manager.test_yield_model.models[c.response.target] \in JobIds)
                => c.response.regressor
                        = manager.test_yield_model.models[c.response.target]]_vars

\* A run trained HBA1C while ECHO, with no data, was skipped, and a
\* prediction for HBA1C was answered by the run's regressor.
C14_Witness ==
    \E j \in DOMAIN tasks :
        /\ tasks[j].pc = "done"
        /\ tasks[j].result.models["HBA1C"] = "completed"
        /\ tasks[j].result.models["ECHO"] = "skipped"
        /\ ~manager.test_yield_model.is_fitted["ECHO"]
        /\ last_prediction.response.target = "HBA1C"
        /\ last_prediction.response.regressor = j

\* C15: in every state, for a test code outside the nine supported ones,
\* TestYieldModel.fit raises and leaves the model as it was, predict raises,
\* and save raises and leaves the stored artifacts as they were.
C15_UnsupportedCodesRefused ==
    \A test_code \in Codes \ Tests :
        LET m == manager.test_yield_model IN
        /\ TestYieldFitCall(m, test_code, ExternalFit) = [raised |-> TRUE, model |-> m]
        /\ \A request \in ServedRequests, raw \in RawOutputs :
                PredictTestYield(manager, test_code, request, raw).raised
        /\ \A version \in {None, MaxClock} :
                TestYieldSaveCall(m, store, test_code, version)
                    = [raised |-> TRUE, store |-> store]

\* C16: version round trip.  In every state and for every version: the
\* active ComplexityModel saved to the version and loaded into a new
\* ComplexityModel gives the metrics and the feature schema the artifact
\* holds; the same for every test code of the active TestYieldModel that has
\* a regressor; and every test-yield artifact of the store, loaded into a new
\* TestYieldModel, gives the metrics and the feature schema it holds.
C16_RoundTrip ==
    \A version \in Versions :
        /\ LET st == ComplexitySave(manager.complexity_model, store, version)
               fresh == ComplexityLoad(NewComplexityModel, st, version)
           IN  /\ fresh.training_metrics = st[ComplexityPath(version)].metrics
               /\ fresh.feature_names = st[ComplexityPath(version)].feature_names
        /\ \A t \in Tests :
            LET m == manager.test_yield_model
                saved == TestYieldSaveCall(m, store, t, version)
                fresh == TestYieldLoad(NewTestYieldModel, saved.store, version)
                path == TestPath(t, version)
            IN  /\ ~saved.raised =>
                    /\ fresh.training_metrics[t] = saved.store[path].metrics
                    /\ fresh.feature_names = saved.store[path].feature_names
                /\ path \in DOMAIN store =>
                    LET loaded == TestYieldLoad(NewTestYieldModel, store, version) IN
                    /\ loaded.training_metrics[t] = store[path].metrics
                    /\ loaded.feature_names = store[path].feature_names

\* C17: a test-yield prediction that does not raise carries a version tag,
\* and when it was answered by a regressor that the store holds for the test
\* code (persisted by a training run, or loaded from the store), the tag is
\* one under which the store holds that regressor for that test code.
C17_VersionOfAnsweringModel ==
    [][LET r == last_prediction'.response IN
       (last_prediction' # last_prediction /\ r.target \in Tests /\ ~r.raised) =>
          /\ r.model_version \in Versions
          /\ (\E v \in Versions :
                /\ TestPath(r.target, v) \in DOMAIN store
                /\ store[TestPath(r.target, v)].model = r.regressor)
             => /\ TestPath(r.target, r.model_version) \in DOMAIN store
                /\ store[TestPath(r.target, r.model_version)].model = r.regressor]_vars

\* The reasons a run gives when it fails for lack of data.
NoDataReasons == {"No training data available", "No models could be trained"}

\* C18: a fetch whose request raised returns the empty list, and a run whose
\* two fetches both failed returns status failed with a lack-of-data reason,
\* forced or not, and leaves the store and the manager as they were.
C18_FailedFetchesEndRunForLackOfData ==
    [][\A j \in DOMAIN tasks, c \in CaseBatches, o \in OverrideBatches :
        (/\ Returns(j)
         /\ tasks[j].cases = FetchOutcome(TRUE, c)
         /\ tasks'[j].result \in
                IF tasks[j].model_type = "complexity"
                THEN {TrainComplexityModel(store, manager, tasks[j].result, tasks[j].cases,
                            FetchOutcome(TRUE, o), tasks[j].force, outcome, j, now').result :
                        outcome \in Outcomes}
                ELSE {TrainAllTestYieldModels(store, manager, tasks[j].result, tasks[j].cases,
                            FetchOutcome(TRUE, o), tasks[j].force, AllOk, j, now').result})
            => /\ FetchOutcome(TRUE, c) = EmptyBatch
               /\ FetchOutcome(TRUE, o) = EmptyBatch
               /\ tasks'[j].result.status = "failed"
               /\ tasks'[j].result.error \in NoDataReasons
               /\ store' = store
               /\ manager' = manager]_vars

\* A forced complexity run and a forced test-yield run have both ended failed
\* for lack of data.
C18_Witness ==
    \E j, k \in DOMAIN tasks :
        /\ tasks[j].pc = "done" /\ tasks[j].force
        /\ tasks[j].result.status = "failed"
        /\ tasks[j].result.error = "No training data available"
        /\ tasks[k].pc = "done" /\ tasks[k].force
        /\ tasks[k].result.status = "failed"
        /\ tasks[k].result.error = "No models could be trained"
        /\ \A t \in Tests : tasks[k].result.models[t] = "skipped"

\* C19: in every state a step leads to, the status query for a job that has
\* a task returns that job, with status pending as long as the task has not
\* taken its first step; and a job the query returned before the step is
\* still returned after it.
C19_JobVisibleFromCreation ==
    [][/\ \A j \in DOMAIN tasks' :
            LET job == GetTrainingStatus(training_jobs', j) IN
            /\ job # NotFound
            /\ job.job_id = j
            /\ job.model_type = tasks'[j].model_type
            /\ tasks'[j].pc = "queued" => job.status = "pending"
       /\ \A j \in JobIds :
            GetTrainingStatus(training_jobs, j) # NotFound
                => GetTrainingStatus(training_jobs', j).job_id = j]_vars

\* A job was created and its task has not started, while an earlier job's
\* run has returned.
C19_Witness ==
    \E j, k \in DOMAIN tasks :
        /\ tasks[j].pc = "queued"
        /\ GetTrainingStatus(training_jobs, j).status = "pending"
        /\ tasks[k].pc = "done"
        /\ GetTrainingStatus(training_jobs, k).status = "completed"

\* C20: two invocations of FeatureEngineer.prepare_features on the same
\* applicant, sum assured, disclosures and feature schema, made at any two
\* times, return the same vector.
C20_ExtractionDeterministic ==
    (parity.first # <<>> /\ parity.second # <<>>) => parity.first = parity.second

\* C21: an unfitted ComplexityModel answers every request with a valid
\* applicant profile: the call does not raise, the tier is ROUTINE, MODERATE
\* or COMPLEX, the per-class probabilities sum to 1, the confidence lies in
\* [0, 1] and is the probability of the returned tier, and the contribution
\* list is not empty.
C21_FallbackComplete ==
    LET c == last_prediction
        r == last_prediction.response
        probs == RuleProbabilities(RuleScore(
                    PrepareComplexityFeatures(c.request.applicant, c.request.sum_assured,
                                              c.request.medical_disclosures)))
    IN  (c # NoPrediction /\ r.target = "complexity"
            /\ ~manager.complexity_model.is_fitted) =>
            /\ ~r.raised
            /\ \E i \in 1..Len(CLASSES) : r.tier = CLASSES[i] /\ r.confidence = probs[i]
            /\ r.confidence \in 0..100
            /\ probs[1] + probs[2] + probs[3] = 100
            /\ r.n_contributions >= 1

\* The fallback answered MODERATE for a request whose bmi was derived from
\* height and weight.
C21_Witness ==
    /\ ~manager.complexity_model.is_fitted
    /\ last_prediction.response.tier = "MODERATE"
    /\ last_prediction.response.confidence = 60
    /\ last_prediction.request.applicant.bmi = None

\* C22: the fallback of the complexity model adds 0.2 for an age of 55 or
\* more and 0.4 instead for 65 or more, 0.2 for a bmi of 30 or more and 0.35
\* instead for 35 or more, 0.3 for current smoking, 0.5 for a cardiac, 0.25
\* for a diabetic and 0.4 for a renal condition, 0.1 for a sum assured of ten
\* million or more; it answers COMPLEX from 0.6, MODERATE from 0.3, ROUTINE
\* below. For age 60, bmi 32, a current smoker, a cardiac condition and twelve
\* million the score is 1.3 and the answer COMPLEX with confidence 0.7.
C22_RuleBasedScoreAndTier ==
    LET c == last_prediction
        r == last_prediction.response
        a == c.request.applicant
        named(name) == \E i \in DOMAIN c.request.medical_disclosures :
                          c.request.medical_disclosures[i].condition_name = name
        bmi == IF a.bmi # None THEN a.bmi
               ELSE (a.weight_kg * 1000000) \div (a.height_cm * a.height_cm)
        score == (IF a.age >= 65 THEN 40 ELSE IF a.age >= 55 THEN 20 ELSE 0)
               + (IF bmi >= 3500 THEN 35 ELSE IF bmi >= 3000 THEN 20 ELSE 0)
               + (IF a.smoking_status = "current" THEN 30 ELSE 0)
               + (IF named("Coronary artery disease") THEN 50 ELSE 0)
               + (IF named("Type 2 diabetes") THEN 25 ELSE 0)
               + (IF named("Chronic kidney disease") THEN 40 ELSE 0)
               + (IF c.request.sum_assured >= 10000 THEN 10 ELSE 0)
        features == PrepareComplexityFeatures(a, c.request.sum_assured,
                                              c.request.medical_disclosures)
    IN  (c # NoPrediction /\ r.target = "complexity"
            /\ ~manager.complexity_model.is_fitted) =>
            /\ RuleScore(features) = score
            /\ r.tier = (IF score >= 60 THEN "COMPLEX"
                         ELSE IF score >= 30 THEN "MODERATE" ELSE "ROUTINE")
            /\ c.request = WorkedExample =>
                    score = 130 /\ r.tier = "COMPLEX" /\ r.confidence = 70

\* The fallback answered the worked example.
C22_Witness ==
    /\ ~manager.complexity_model.is_fitted
    /\ last_prediction.request = WorkedExample
    /\ last_prediction.response.tier = "COMPLEX"

\* C23: every yield TestYieldModel.predict returns lies in [0, 1], for every
\* supported test code: on the fitted path whatever the sign and size of the
\* regressor's raw output, on the fallback path whatever rule increments add up.
C23_YieldClamped ==
    LET r == last_prediction.response
    IN  (last_prediction # NoPrediction /\ r.target \in Tests /\ ~r.raised) =>
            /\ r.predicted_yield \in 0..100
            /\ r.regressor = None => r.predicted_yield = RuleYield(
                    r.target,
                    PrepareTestFeatures(r.target, last_prediction.request.applicant,
                                        last_prediction.request.sum_assured,
                                        last_prediction.request.medical_disclosures))

\* A fitted regressor whose raw output was negative answered with yield 0.
C23_Witness ==
    /\ last_prediction.response.target \in Tests
    /\ ~last_prediction.response.raised
    /\ last_prediction.response.regressor # None
    /\ last_prediction.response.predicted_yield = 0

\* C24: the recommendation returned with a yield is "recommended" from 0.6,
\* "optional" from 0.3 up to 0.6 and "low_yield" below, the same for a yield
\* of the fitted model and for a yield of the fallback.
C24_RecommendationFollowsYield ==
    LET r == last_prediction.response
    IN  (last_prediction # NoPrediction /\ r.target \in Tests /\ ~r.raised) =>
            r.recommendation =
                (IF r.predicted_yield >= 60 THEN "recommended"
                 ELSE IF r.predicted_yield >= 30 THEN "optional"
                 ELSE "low_yield")

\* The fallback answered with the yield 0.3, the lower threshold.
C24_Witness ==
    /\ last_prediction.response.target \in Tests
    /\ ~last_prediction.response.raised
    /\ ~manager.test_yield_model.is_fitted[last_prediction.response.target]
    /\ last_prediction.response.predicted_yield = 30
    /\ last_prediction.response.recommendation = "optional"

\* C25: after the construction of the ModelManager and after every
\* reload_models, the fitted-status map marks the complexity model and each
\* test code as fitted exactly when the model directory holds an artifact for
\* it under the version being loaded; a load with artifacts missing completes
\* and leaves the models without one unfitted.
C25_FittedIffArtifactExists ==
    /\ GetLoadedModels(manager)["complexity"]
            = (ComplexityPath(manager.current_version) \in DOMAIN store)
    /\ \A t \in Tests :
            GetLoadedModels(manager)[t]
                = (TestPath(t, manager.current_version) \in DOMAIN store)
    /\ [][(\E version \in Versions \cup {None} : ReloadModels(version)) =>
            /\ GetLoadedModels(manager')["complexity"]
                    = (ComplexityPath(manager'.current_version) \in DOMAIN store')
            /\ \A t \in Tests :
                    GetLoadedModels(manager')[t]
                        = (TestPath(t, manager'.current_version) \in DOMAIN store')]_vars

\* reload_models(version) has loaded a version that a test-yield training
\* run wrote: some test codes fitted, others and the complexity model not.
C25_Witness ==
    /\ manager.current_version # CurrentModelVersion
    /\ ~GetLoadedModels(manager)["complexity"]
    /\ \E t \in Tests, u \in Tests : GetLoadedModels(manager)[t] /\ ~GetLoadedModels(manager)[u]

\* C26: the confidence returned with a test yield is computed from the
\* completeness of the features alone, on the fitted path and on the fallback
\* path alike: 0.5, plus 0.15 for each of age and bmi that is present, plus
\* 0.05 for each of smoking status, diabetes flag and cardiac flag that is
\* present, at most 0.95.
C26_ConfidenceFromCompleteness ==
    LET r == last_prediction.response
        features == PrepareTestFeatures(r.target, last_prediction.request.applicant,
                                        last_prediction.request.sum_assured,
                                        last_prediction.request.medical_disclosures)
        score == 50 + (IF features.age # None THEN 15 ELSE 0)
                    + (IF features.bmi # None THEN 15 ELSE 0)
                    + (IF features.smoking_status # "None" THEN 5 ELSE 0)
                    + (IF "has_diabetes" \in DOMAIN features THEN 5 ELSE 0)
                    + (IF "has_cardiac" \in DOMAIN features THEN 5 ELSE 0)
    IN  (last_prediction # NoPrediction /\ r.target \in Tests /\ ~r.raised) =>
            r.confidence = (IF score > 95 THEN 95 ELSE score)

\* C27: on the fitted and on the fallback path, the contribution list that
\* predict returns has at most 8 entries, is sorted by descending absolute
\* contribution, and gives every entry a direction among increases,
\* decreases and neutral.  The list of a test-yield answer is that of
\* _calculate_contributions when a regressor answered and the single
\* rule_based entry otherwise.
C27_ContributionsRankedAndBounded ==
    LET r == last_prediction.response
        features == PrepareTestFeatures(r.target, last_prediction.request.applicant,
                                        last_prediction.request.sum_assured,
                                        last_prediction.request.medical_disclosures)
        contributions ==
            IF r.regressor # None THEN TestContributions(r.target, features)
            ELSE << [feature |-> "rule_based", contribution |-> 30 * r.predicted_yield,
                     direction |-> "increases"] >>
        abs(x) == IF x < 0 THEN -x ELSE x
    IN  /\ (last_prediction # NoPrediction /\ ~r.raised) => r.n_contributions <= 8
        /\ (last_prediction # NoPrediction /\ r.target \in Tests /\ ~r.raised) =>
                /\ Len(contributions) = r.n_contributions
                /\ \A i \in DOMAIN contributions :
                        contributions[i].direction \in {"increases", "decreases", "neutral"}
                /\ \A i \in DOMAIN contributions, k \in DOMAIN contributions :
                        i < k => abs(contributions[i].contribution)
                                    >= abs(contributions[k].contribution)

\* C28: in every reachable state of the active TestYieldModel, a test code
\* whose fitted flag is true has a regressor in the model bank.
C28_FittedCodesHaveRegressor ==
    \A t \in Tests :
        manager.test_yield_model.is_fitted[t]
            => manager.test_yield_model.models[t] \notin {None, Absent}

\* C29: once a completed complexity training run has hot-swapped its model
\* in, current_version names that model's version, and reload_models() with
\* no version argument leaves the trained model active instead of reverting
\* to the version configured at startup.
C29_ReloadKeepsTrainedVersion ==
    [][/\ manager'.complexity_model.model \in JobIds
            => manager'.current_version = manager'.complexity_model.version
       /\ (manager.complexity_model.model \in JobIds /\ ReloadModels(None))
            => manager'.complexity_model = manager.complexity_model]_vars

\* C30: every triggered training job eventually reaches a terminal status,
\* completed or failed, when its background task is scheduled fairly, each
\* backend fetch returns or times out and each fit returns or raises; no job
\* stays pending or running for ever.
C30_EveryJobTerminates ==
    \A j \in JobIds :
        (j \in DOMAIN training_jobs)
            ~> (j \in DOMAIN training_jobs
                    /\ training_jobs[j].status \in {"completed", "failed"})

\* Every job that could be triggered was, and has reached a terminal status
\* while its task ran to its end.
C30_Witness ==
    /\ Len(training_jobs) = MaxJobs
    /\ \A j \in DOMAIN training_jobs :
            /\ training_jobs[j].status \in {"completed", "failed"}
            /\ tasks[j].pc = "done"

=============================================================================
